---- MODULE Spec2Model ----
(***************************************************************************)
(* Model of the Pentair cloud integration: the hub (credentials, device    *)
(* registry, rate-limited status poll, program commands) and the entities  *)
(* that act on it (pump fan, pump-speed number, heater switch, climate).   *)
(*                                                                         *)
(* Time is counted in quarters of a second.  Python's None is the value    *)
(* None below; a program's control value is the raw e10 field (0 or 3).    *)
(***************************************************************************)
EXTENDS Integers, Sequences, FiniteSets, TLC

VARIABLES
    hub,      \* PentairCloudHub: token, signing triple, last_update, devices
    cloud,    \* the remote side: Cognito session token, per-device e10 fields
    now,      \* time.time(), in quarters of a second
    fan,      \* PentairPumpFan entity state and its pending tasks
    num,      \* PentairPumpSpeed (number) entity state
    sw,       \* PentairRelaySwitch (heater switch) entity state
    clim,     \* PentairPoolHeater (climate) entity state
    last,     \* the last operation: its name, outcome and remote calls
    ops,      \* number of operations the user or the scheduler has started
    workers   \* where each executor thread stands in a status update

vars == <<hub, cloud, now, fan, num, sw, clim, last, ops, workers>>

(***************************************************************************)
(* Bounds                                                                  *)
(***************************************************************************)
MaxTime == 245        \* the hub's clock stops advancing here
MaxOps == 3           \* operations started on the entities in one run
MaxToken == 2         \* number of distinct id tokens the session can issue

(***************************************************************************)
(* Program constants                                                       *)
(***************************************************************************)
UPDATE_MIN_SECONDS == 240     \* 60 s, in quarters of a second
SCAN_INTERVAL == 120          \* 30 s, in quarters of a second
DEBOUNCE_DELAY == 2           \* asyncio.sleep(0.5), in quarters of a second
START_VALUE == 3              \* PentairPumpProgram.get_start_value
STOP_VALUE == 0               \* PentairPumpProgram.get_stop_value
S14_NONE == 99                \* raw s14 sentinel: no active pump program
MANUAL == 2                   \* program_type of a manual program

None == 0 - 1
Absent == 0 - 2               \* a field missing from a response

Slots == 1..8                 \* range(1, 9)

(***************************************************************************)
(* The account as the vendor cloud reports it                              *)
(***************************************************************************)
AccountDevices ==
    << [deviceId |-> "d1", deviceType |-> "IF31", status |-> "ACTIVE"],
       [deviceId |-> "d8", deviceType |-> "IF31", status |-> "INACTIVE"],
       [deviceId |-> "d9", deviceType |-> "IF20", status |-> "ACTIVE"] >>

DeviceIds == {AccountDevices[k].deviceId : k \in 1..Len(AccountDevices)}

\* slots whose zp{n}e13 flag is "1" on the device when it is set up
ActiveSlots == {1, 2, 3, 4, 5, 6}

\* zp{n}e2, the slot's name as the device reports it (a name is its number)
SlotName(n) == 100 + n

(***************************************************************************)
(* PentairPumpProgram and PentairDevice                                    *)
(***************************************************************************)
PentairPumpProgram(id, name, program_type, control_value) ==
    [id |-> id, name |-> name, program_type |-> program_type,
     control_value |-> control_value, running |-> (control_value = 3)]

PentairDevice(pentair_device_id) ==
    [pentair_device_id |-> pentair_device_id,
     active_pump_program |-> None,
     pump_running |-> FALSE,
     programs |-> << >>]

\* variant: the program is always appended
update_program_append(programs, id, name, program_type, control_value) ==
    Append(programs, PentairPumpProgram(id, name, program_type, control_value))

\* variant: an existing program is replaced and moved to the end
update_program_move(programs, id, name, program_type, control_value) ==
    Append(SelectSeq(programs, LAMBDA q : q.id # id),
           PentairPumpProgram(id, name, program_type, control_value))

\* PentairDevice.update_program applied to the device's program list
update_program(programs, id, name, program_type, control_value) ==
    IF \E k \in 1..Len(programs) : programs[k].id = id
    THEN [k \in 1..Len(programs) |->
            IF programs[k].id = id
            THEN [programs[k] EXCEPT !.name = name,
                                     !.program_type = program_type,
                                     !.control_value = control_value,
                                     !.running = (control_value = 3)]
            ELSE programs[k]]
    ELSE Append(programs,
                PentairPumpProgram(id, name, program_type, control_value))

(***************************************************************************)
(* PentairCloudHub                                                         *)
(***************************************************************************)
NewHub ==
    [cognito_client |-> FALSE,     \* None / a Cognito session
     AWS_TOKEN |-> None,
     creds |-> None,               \* access/secret/session triple: the token
                                   \* it was exchanged for
     last_update |-> None,
     username |-> "None",
     password |-> "None",
     devices |-> << >>]

NewCloud ==
    [session_token |-> 0,
     accepts_all |-> FALSE,        \* the remote accepts every command and
                                   \* answers every status request
     e13 |-> [d \in DeviceIds |->
                [n \in Slots |-> IF n \in ActiveSlots THEN 1 ELSE 0]],
     e10 |-> [d \in DeviceIds |-> [n \in Slots |-> 0]]]

\* one remote call, as recorded in the operation's trace
Call(kind, dev, prog, val, ok) ==
    [call |-> kind, dev |-> dev, prog |-> prog, val |-> val, ok |-> ok]

\* the state an operation threads through its calls: the hub, the remote
\* side, the clock, the remote calls made so far, whether an exception is
\* propagating, and the value returned ("None", "True" or "False")
St(h, c, t) == [hub |-> h, cloud |-> c, now |-> t, ev |-> << >>,
                exc |-> FALSE, ret |-> "None"]

\* Python truthiness of a returned value
Truthy(r) == r = "True"

\* a remote call is signed with the stored triple
Signed(h) == h.creds # None


\* what the environment answers during one operation
\*   refresh: check_token() renews the session's id token
\*   exch:    the identity / credential exchange ("ok", "fail")
\*   list:    the list-devices request ("ok", "fail")
\*   fetch:   the batch status request: "ok"; "transport" (the request
\*            raises); "timeout" (an error body whose message says timeout);
\*            "error" (any other error body)
\*   put:     the field update: "ok"; "transport" (the request raises);
\*            "code" (a body with another code); "first" (the first
\*            command of the operation is accepted, the later ones get
\*            another code)
\*   s14:     the raw s14 field of the status response
Answer(refresh, exch, list, fetch, put, s14) ==
    [refresh |-> refresh, exch |-> exch, list |-> list, fetch |-> fetch,
     put |-> put, s14 |-> s14]

\* the session renews its token at most once during one operation
NoRefresh(o) == [o EXCEPT !.refresh = FALSE]

\* raw s14 values the device may report: none active, or the index of a
\* program that is armed
S14Choices(c, d) == {S14_NONE} \cup {n - 1 : n \in {m \in Slots : c.e10[d][m] = 3}}

\* fields.get(key, {}).get("value", default)
FieldGet(v, default) == IF v = Absent THEN default ELSE v

\* variant: the raw index is stored as reported
DecodeActivePumpProgram_raw(raw) ==
    LET v == FieldGet(raw, S14_NONE)
    IN  IF v = S14_NONE THEN None ELSE v

\* lines 261-267: s14 is 0-based, 99 means none
DecodeActivePumpProgram(raw) ==
    LET v == FieldGet(raw, S14_NONE)
    IN  IF v = S14_NONE THEN None ELSE v + 1

\* an answer may leave s14 to the device: the first armed program, if any
FirstArmed == 0 - 3

ResolveS14(c, d, s14) ==
    IF s14 # FirstArmed THEN s14
    ELSE IF \E n \in Slots : c.e10[d][n] = 3
    THEN (CHOOSE n \in Slots :
             /\ c.e10[d][n] = 3
             /\ \A m \in Slots : c.e10[d][m] = 3 => n <= m) - 1
    ELSE S14_NONE

\* the fields of one device_response
DeviceFields(c, d, s14) ==
    [s14 |-> ResolveS14(c, d, s14),
     e13 |-> c.e13[d],
     e5  |-> [n \in Slots |-> MANUAL],
     e2  |-> [n \in Slots |-> SlotName(n)],
     e10 |-> c.e10[d]]

\* variant: every slot is upserted, flagged or not
RECURSIVE UpsertSlots_all(_, _, _)
UpsertSlots_all(programs, fields, i) ==
    IF i > 8 THEN programs
    ELSE UpsertSlots_all(
            update_program(programs, i, fields.e2[i], fields.e5[i],
                           fields.e10[i]),
            fields, i + 1)

\* lines 276-285: for i in range(1, 9), upsert the slots flagged active
RECURSIVE UpsertSlots(_, _, _)
UpsertSlots(programs, fields, i) ==
    IF i > 8 THEN programs
    ELSE UpsertSlots(
            IF fields.e13[i] = 1
            THEN update_program(programs, i, fields.e2[i], fields.e5[i],
                                fields.e10[i])
            ELSE programs,
            fields, i + 1)

\* lines 258-285: one device decoded from its device_response
DecodeDevice(device, fields) ==
    LET app == DecodeActivePumpProgram(fields.s14)
    IN  [device EXCEPT !.active_pump_program = app,
                       !.pump_running = (app # None),
                       !.programs = UpsertSlots(device.programs, fields, 1)]

\* lines 255-257: every device of the registry whose id is in the response
DecodeResponse(devices, c, s14) ==
    [k \in 1..Len(devices) |->
        IF devices[k].pentair_device_id \in DeviceIds
        THEN DecodeDevice(devices[k],
                          DeviceFields(c, devices[k].pentair_device_id, s14))
        ELSE devices[k]]

\* lines 255-285 when int() raises on the zp{bad}e10 field of the first
\* device: s14 and the slots before it have been stored, the rest of the
\* response is not looked at
DecodeUntil(devices, c, s14, bad) ==
    IF devices = << >> \/ devices[1].pentair_device_id \notin DeviceIds
    THEN devices
    ELSE [devices EXCEPT ![1] =
            DecodeDevice(@, [DeviceFields(c, @.pentair_device_id, s14) EXCEPT
                                !.e13 = [n \in Slots |->
                                            IF n < bad THEN @[n] ELSE 0]])]

\* variant: the guard lets a call through after half the interval
UpdateAllowed_half(last_update, t) ==
    last_update = None \/ 2 * (t - last_update) >= UPDATE_MIN_SECONDS

\* lines 231-234: the minimum-interval guard
UpdateAllowed(last_update, t) ==
    last_update = None \/ t - last_update > UPDATE_MIN_SECONDS

\* lines 192-201: a Device for each IF31 device that is ACTIVE
RECURSIVE Discovered(_)
Discovered(k) ==
    IF k > Len(AccountDevices) THEN << >>
    ELSE (IF AccountDevices[k].deviceType = "IF31"
             /\ AccountDevices[k].status = "ACTIVE"
          THEN << PentairDevice(AccountDevices[k].deviceId) >>
          ELSE << >>) \o Discovered(k + 1)

\* variant: the update stops every other program of the device
SetProgramState_exclusive(devices, deviceId, program_id, running, control_value) ==
    [k \in 1..Len(devices) |->
        IF devices[k].pentair_device_id = deviceId
        THEN [devices[k] EXCEPT !.programs =
                [j \in 1..Len(devices[k].programs) |->
                    IF devices[k].programs[j].id = program_id
                    THEN [devices[k].programs[j] EXCEPT
                             !.running = running,
                             !.control_value = control_value]
                    ELSE [devices[k].programs[j] EXCEPT
                             !.running = FALSE,
                             !.control_value = 0]]]
        ELSE devices[k]]

\* variant: running is set, control_value is not
SetProgramState_running(devices, deviceId, program_id, running, control_value) ==
    [k \in 1..Len(devices) |->
        IF devices[k].pentair_device_id = deviceId
        THEN [devices[k] EXCEPT !.programs =
                [j \in 1..Len(devices[k].programs) |->
                    IF devices[k].programs[j].id = program_id
                    THEN [devices[k].programs[j] EXCEPT !.running = running]
                    ELSE devices[k].programs[j]]]
        ELSE devices[k]]

\* variant: the optimistic update is left out
SetProgramState_skip(devices, deviceId, program_id, running, control_value) ==
    devices

\* lines 348-353 / 391-396: the optimistic update of the matching programs
SetProgramState(devices, deviceId, program_id, running, control_value) ==
    [k \in 1..Len(devices) |->
        IF devices[k].pentair_device_id = deviceId
        THEN [devices[k] EXCEPT !.programs =
                [j \in 1..Len(devices[k].programs) |->
                    IF devices[k].programs[j].id = program_id
                    THEN [devices[k].programs[j] EXCEPT
                             !.running = running,
                             !.control_value = control_value]
                    ELSE devices[k].programs[j]]]
        ELSE devices[k]]

\* authenticate: "ok", "bad" (u.authenticate raises) or "get_user"
\* (get_user raises after the client was stored)
authenticate(st, username, password, outcome) ==
    IF outcome = "ok"
    THEN [st EXCEPT !.hub.cognito_client = TRUE,
                    !.hub.username = username,
                    !.hub.password = password,
                    !.cloud.session_token = @ + 1,
                    !.ev = Append(@, Call("login", "", 0, 0, TRUE)),
                    !.ret = "True"]
    ELSE IF outcome = "get_user"
    THEN [st EXCEPT !.hub.cognito_client = TRUE,
                    !.cloud.session_token = @ + 1,
                    !.ev = Append(@, Call("login", "", 0, 0, TRUE)),
                    !.ret = "False"]
    ELSE [st EXCEPT !.ev = Append(@, Call("login", "", 0, 0, FALSE)),
                    !.ret = "False"]

\* lines 248-303: the status request and what the handler does with it
Fetch(st, o) ==
    IF ~Signed(st.hub)
    THEN \* the service rejects the request: a JSON body without "response"
         [st EXCEPT !.ev = Append(@, Call("fetch", "", 0, 0, FALSE))]
    ELSE IF o.fetch = "ok"
    THEN [st EXCEPT !.hub.devices = DecodeResponse(@, st.cloud, o.s14),
                    !.ev = Append(@, Call("fetch", "", 0, 0, TRUE))]
    ELSE IF o.fetch = "transport"
    THEN \* requests.post raises; the handler's log call reads response_data,
         \* which is unbound, and that error leaves the method
         [st EXCEPT !.ev = Append(@, Call("fetch", "", 0, 0, FALSE)),
                    !.exc = TRUE]
    ELSE IF o.fetch = "undecodable"
    THEN \* a field of slot 3 is not a number: the error is caught and logged
         [st EXCEPT !.hub.devices = DecodeUntil(@, st.cloud, o.s14, 3),
                    !.ev = Append(@, Call("fetch", "", 0, 0, FALSE))]
    ELSE IF o.fetch = "timeout"
    THEN \* a body whose message contains "timeout": authenticate again
         [authenticate(
              [st EXCEPT !.ev = Append(@, Call("fetch", "", 0, 0, FALSE))],
              st.hub.username, st.hub.password,
              IF st.hub.username = "None" THEN "bad" ELSE "ok")
          EXCEPT !.ret = "None"]
    ELSE [st EXCEPT !.ev = Append(@, Call("fetch", "", 0, 0, FALSE))]

RECURSIVE populate_AWS_token(_, _)
RECURSIVE populate_AWS_and_data_fields(_, _)
RECURSIVE populate_pentair_devices(_, _)
RECURSIVE update_pentair_devices_status(_, _)

\* variant: a new token is stored and nothing else is done
populate_AWS_token_quiet(st, o) ==
    IF ~st.hub.cognito_client THEN st
    ELSE LET c1 == IF o.refresh
                   THEN [st.cloud EXCEPT !.session_token = @ + 1]
                   ELSE st.cloud
         IN  [st EXCEPT !.cloud = c1, !.hub.AWS_TOKEN = c1.session_token]

\* variant: the exchange is made on every check, changed token or not
populate_AWS_token_always(st, o) ==
    IF ~st.hub.cognito_client THEN st
    ELSE LET c1 == IF o.refresh
                   THEN [st.cloud EXCEPT !.session_token = @ + 1]
                   ELSE st.cloud
         IN  populate_AWS_and_data_fields(
                 [st EXCEPT !.cloud = c1, !.hub.AWS_TOKEN = c1.session_token],
                 NoRefresh(o))

populate_AWS_token(st, o) ==
    IF ~st.hub.cognito_client THEN st
    ELSE LET c1 == IF o.refresh
                   THEN [st.cloud EXCEPT !.session_token = @ + 1]
                   ELSE st.cloud
             new_token == c1.session_token
             st1 == [st EXCEPT !.cloud = c1]
         IN  IF st.hub.AWS_TOKEN # new_token
             THEN populate_AWS_and_data_fields(
                      [st1 EXCEPT !.hub.AWS_TOKEN = new_token], NoRefresh(o))
             ELSE st1

populate_AWS_and_data_fields(st, o) ==
    LET st1 == IF st.hub.AWS_TOKEN = None THEN populate_AWS_token(st, o) ELSE st
    IN  IF o.exch = "ok" /\ st1.hub.AWS_TOKEN # None
        THEN populate_pentair_devices(
                 [st1 EXCEPT !.hub.creds = st1.hub.AWS_TOKEN,
                             !.ev = Append(@, Call("exchange", "", 0, 0, TRUE))],
                 NoRefresh(o))
        ELSE [st1 EXCEPT !.ev = Append(@, Call("exchange", "", 0, 0, FALSE))]

populate_pentair_devices(st, o) ==
    IF st.hub.AWS_TOKEN = None THEN st
    ELSE IF o.list = "ok" /\ Signed(st.hub)
    THEN LET st1 == [st EXCEPT !.hub.devices = @ \o Discovered(1),
                               !.ev = Append(@, Call("list", "", 0, 0, TRUE))]
         IN  \* an error leaving the status update is caught here
             [update_pentair_devices_status(st1, o) EXCEPT !.exc = FALSE]
    ELSE [st EXCEPT !.ev = Append(@, Call("list", "", 0, 0, FALSE))]

update_pentair_devices_status(st, o) ==
    IF UpdateAllowed(st.hub.last_update, st.now)
    THEN LET st1 == populate_AWS_token(
                        [st EXCEPT !.hub.last_update = st.now], o)
         IN  IF st1.hub.AWS_TOKEN # None THEN Fetch(st1, NoRefresh(o)) ELSE st1
    ELSE st

\* what the device service answers to a PUT: "raise" (no response),
\* "set_device_success", or another code
PutAnswer(st, o) ==
    IF o.put = "transport" THEN "raise"
    ELSE IF /\ Signed(st.hub)
            /\ \/ o.put = "ok"
               \/ /\ o.put = "first"
                  /\ \A k \in 1..Len(st.ev) : st.ev[k].call # "put"
    THEN "set_device_success"
    ELSE "error"

\* variant: any response body passes
PutAccepted_any(answer) == answer # "raise"

\* lines 342-345 / 386-388: only the success literal passes
PutAccepted(answer) == answer = "set_device_success"

\* lines 321-363 / 372-402
SendProgram(st, o, deviceId, program_id, running, control_value) ==
    LET st1 == populate_AWS_token(st, o)
        answer == PutAnswer(st1, o)
        st2 == [st1 EXCEPT
                  !.cloud.e10[deviceId][program_id] =
                      IF answer = "set_device_success" THEN control_value ELSE @,
                  !.ev = Append(@, Call("put", deviceId, program_id,
                                        control_value,
                                        answer = "set_device_success"))]
    IN  IF st1.hub.AWS_TOKEN # None
        THEN IF PutAccepted(answer)
             THEN [st2 EXCEPT
                     !.hub.devices = SetProgramState(@, deviceId, program_id,
                                                     running, control_value)]
             ELSE st2
        ELSE st1

\* the methods return nothing: ret stays "None"
activate_program_concurrent(st, o, deviceId, program_id) ==
    SendProgram(st, o, deviceId, program_id, TRUE, START_VALUE)

deactivate_program(st, o, deviceId, program_id) ==
    SendProgram(st, o, deviceId, program_id, FALSE, STOP_VALUE)

start_program(st, o, deviceId, program_id) ==
    activate_program_concurrent(st, o, deviceId, program_id)

stop_program(st, o, deviceId, program_id) ==
    deactivate_program(st, o, deviceId, program_id)


(***************************************************************************)
(* Entities: configuration and initial state                               *)
(***************************************************************************)
\* config_entry.data: role -> program identity (the defaults of the code)
DefaultConfig ==
    [speed_low |-> 3, speed_medium |-> 2, speed_high |-> 4, speed_max |-> 1,
     relay_lights |-> 5, relay_heater |-> 6]

\* a speed-change task: "none", "sleeping" (in the debounce delay),
\* "running" (in _execute_speed_change, at pc) or "done"; req and
\* req_heater remember the request that created it
NoTask == [state |-> "none", speed |-> 0, due |-> 0, pc |-> "", i |-> 0,
           target |-> None, actual |-> 0, req |-> 0, req_heater |-> FALSE]

\* fan.async_setup_entry, lines 49-54
ProgramMappings(cfg) ==
    [low |-> cfg.speed_low, medium |-> cfg.speed_medium,
     high |-> cfg.speed_high, max |-> cfg.speed_max]

\* PentairPumpFan.__init__ before _update_state_from_device
NewFan(cfg) ==
    [program_mappings |-> ProgramMappings(cfg),
     percentage |-> 0, is_on |-> FALSE, preset_mode |-> "off",
     pending_speed_change |-> None, last_speed_change |-> 0,
     heater_on |-> FALSE, minimum_speed_override |-> FALSE,
     task |-> NoTask,           \* _speed_change_task and its coroutine
     followup |-> FALSE,        \* the task update_heater_state creates
     off |-> [pc |-> "idle", i |-> 0, any_failed |-> FALSE],
                                \* async_turn_off in progress
     \* bookkeeping for the claims: the time and the safety-adjusted
     \* percentage of the last request, and whether the remote accepted
     \* every stop command of the turn-off and of the speed change in
     \* progress
     seen |-> [req_time |-> None, req_safe |-> None, off_ok |-> TRUE,
               exec_ok |-> TRUE]]

\* number.async_setup_entry, lines 35-41: speed -> program, in dict order
SpeedPrograms(cfg) ==
    << [speed |-> 0, program |-> None],
       [speed |-> 30, program |-> cfg.speed_low],
       [speed |-> 50, program |-> cfg.speed_medium],
       [speed |-> 75, program |-> cfg.speed_high],
       [speed |-> 100, program |-> cfg.speed_max] >>

\* PentairPumpSpeed.__init__
NewNum(cfg) == [speed_programs |-> SpeedPrograms(cfg), current_speed |-> 0]

\* PentairRelaySwitch.__init__ for the heater relay; speed_medium is what
\* async_turn_on reads from the config entry
NewSw(cfg) ==
    [relay_program |-> cfg.relay_heater, speed_medium |-> cfg.speed_medium,
     is_on |-> FALSE]

\* PentairPoolHeater.__init__; the water temperature is kept relative to
\* the target: "unknown" (None), "cold" (below target - 1), "ok", "hot"
\* (above target)
NewClim(cfg) ==
    [heater_program |-> cfg.relay_heater, speed_medium |-> cfg.speed_medium,
     hvac_mode |-> "off", current_temperature |-> "unknown",
     heater_on |-> FALSE, is_heating |-> FALSE]

\* the executor threads that may run update_pentair_devices_status at the
\* same time (the coordinator's poll and the fan's poll), none inside it
NoWorkers == [w \in {1, 2} |-> "idle"]

\* the record of the last operation
Op(name, dev, prog, st) ==
    [op |-> name, dev |-> dev, prog |-> prog, ev |-> st.ev, exc |-> st.exc,
     ret |-> st.ret, mid |-> << >>, note |-> ""]

NoOp == [op |-> "init", dev |-> "", prog |-> 0, ev |-> << >>, exc |-> FALSE,
         ret |-> "None", mid |-> << >>, note |-> ""]

Here == St(hub, cloud, now)

\* the hub and the remote side after an operation
Commit(st) == hub' = st.hub /\ cloud' = st.cloud

(***************************************************************************)
(* The hub on its own: authentication, setup, polls and commands with      *)
(* every answer of the remote side                                         *)
(***************************************************************************)
HubDevice == "d1"
HubPrograms == {2, 6, 7}      \* two programs of the registry, one outside it
RemotePrograms == {2}         \* programs the vendor app arms and disarms
HubTickSteps == {SCAN_INTERVAL, UPDATE_MIN_SECONDS + 1}

\* the token the next check_token() will show
NextToken(refresh) == cloud.session_token + (IF refresh THEN 1 ELSE 0)

\* the answers that make a difference in the current state
Refreshes ==
    IF hub.cognito_client /\ cloud.session_token < MaxToken
    THEN BOOLEAN ELSE {FALSE}

Exchanges(refresh) ==
    IF hub.cognito_client /\ hub.AWS_TOKEN # NextToken(refresh)
    THEN {"ok", "fail"} ELSE {"ok"}

Fetches(refresh) ==
    {"ok", "transport", "error"}
    \cup (IF NextToken(refresh) < MaxToken THEN {"timeout"} ELSE {})

\* the hub after a successful login and setup at time 0
\* (ConfigFlow.async_step_user, lines 98-104)
AllOk == Answer(FALSE, "ok", "ok", "ok", "ok", S14_NONE)

SetUpAt(t, e10) ==
    populate_AWS_and_data_fields(
        authenticate(St(NewHub, [NewCloud EXCEPT !.e10["d1"] = e10], t),
                     "user", "secret", "ok"),
        AllOk)

SetUp == SetUpAt(0, [n \in Slots |-> 0])

\* a hub that was set up, or one whose login never succeeded
HubInit ==
    /\ \E s \in {SetUp, St(NewHub, NewCloud, 0)} :
          hub = s.hub /\ cloud = s.cloud
    /\ now = 0
    /\ fan = NewFan(DefaultConfig)
    /\ num = NewNum(DefaultConfig)
    /\ sw = NewSw(DefaultConfig)
    /\ clim = NewClim(DefaultConfig)
    /\ last = NoOp
    /\ ops = 0
    /\ workers = NoWorkers

Idle == UNCHANGED <<fan, num, sw, clim, ops, workers>>

HubTick ==
    \E d \in HubTickSteps :
        /\ now + d <= MaxTime
        /\ now' = now + d
        /\ last' = [NoOp EXCEPT !.op = "tick"]
        /\ UNCHANGED <<hub, cloud>>
        /\ Idle

\* the vendor app or a schedule arms or disarms a program
CloudChange ==
    \E n \in RemotePrograms, v \in {STOP_VALUE, START_VALUE} :
        /\ cloud.e10[HubDevice][n] # v
        /\ cloud' = [cloud EXCEPT !.e10[HubDevice][n] = v]
        /\ last' = [NoOp EXCEPT !.op = "cloud"]
        /\ UNCHANGED <<hub, now>>
        /\ Idle

HubUpdateStatus ==
    \E refresh \in Refreshes :
    \E exch \in Exchanges(refresh), fetch \in Fetches(refresh),
       s14 \in S14Choices(cloud, HubDevice) :
        /\ \E st \in {update_pentair_devices_status(
                         Here, Answer(refresh, exch, "ok", fetch, "ok", s14))} :
               /\ Commit(st)
               /\ last' = Op("update_status", "", 0, st)
        /\ UNCHANGED now
        /\ Idle

HubCommand(name, p, refresh, exch, put) ==
    \E o \in {Answer(refresh, exch, "ok", "ok", put, S14_NONE)} :
    \E st \in {IF name = "activate"
                THEN activate_program_concurrent(Here, o, HubDevice, p)
                ELSE deactivate_program(Here, o, HubDevice, p)} :
        /\ Commit(st)
        /\ last' = [Op(name, HubDevice, p, st) EXCEPT
                        !.mid = populate_AWS_token(Here, o).hub.devices]
        /\ UNCHANGED now
        /\ Idle

HubActivate ==
    \E p \in HubPrograms, refresh \in Refreshes :
    \E exch \in Exchanges(refresh), put \in {"ok", "transport", "code"} :
        HubCommand("activate", p, refresh, exch, put)

HubDeactivate ==
    \E p \in HubPrograms, refresh \in Refreshes :
    \E exch \in Exchanges(refresh), put \in {"ok", "transport", "code"} :
        HubCommand("deactivate", p, refresh, exch, put)

\* ---- reading the record of the last operation ----
Calls(ev, kind) == {k \in 1..Len(ev) : ev[k].call = kind}
NumFetch(ev) == Cardinality(Calls(ev, "fetch"))
PutOk(ev) == \E k \in Calls(ev, "put") : ev[k].ok
PutSent(ev) == Calls(ev, "put") # {}
Rediscovered(ev) == \E k \in Calls(ev, "list") : ev[k].ok
IsActivate(l) == l.op \in {"activate", "start_program"}
IsDeactivate(l) == l.op \in {"deactivate", "stop_program"}
IsCommand(l) == IsActivate(l) \/ IsDeactivate(l)

HubNext ==
    \/ HubTick
    \/ CloudChange
    \/ HubUpdateStatus
    \/ HubActivate
    \/ HubDeactivate

HubSpec == HubInit /\ [][HubNext]_vars


(***************************************************************************)
(* Claims about the hub                                                    *)
(***************************************************************************)

C8_Optimistic ==
    (IsActivate(last) /\ PutOk(last.ev))
    => \A k \in 1..Len(hub.devices) :
          hub.devices[k].pentair_device_id = last.dev
          => \A j \in 1..Len(hub.devices[k].programs) :
                hub.devices[k].programs[j].id = last.prog
                => /\ hub.devices[k].programs[j].running = TRUE
                   /\ hub.devices[k].programs[j].control_value = 3

\* C8 witness: program 2 of the device reads running right after the command
C8_Witness ==
    /\ IsActivate(last) /\ PutOk(last.ev) /\ last.prog = 2
    /\ NumFetch(last.ev) = 0
    /\ \E j \in 1..Len(hub.devices[1].programs) :
          /\ hub.devices[1].programs[j].id = 2
          /\ hub.devices[1].programs[j].running

\* C9 (as claimed): a command that fails leaves the registry unchanged.
C9_FailedUntouched ==
    [][ (IsCommand(last') /\ ~PutOk(last'.ev))
        => \A k \in 1..Len(hub.devices) :
              hub'.devices[k] = hub.devices[k] ]_vars

\* C9 (amended): a failed command applies no optimistic update: the
\* registry is unchanged unless the command's token check found a new
\* token and re-ran discovery, and then it is the registry that discovery
\* and its status refresh left.
C9_FailedNoOptimistic ==
    [][ (IsCommand(last') /\ ~PutOk(last'.ev))
        => /\ hub'.devices = last'.mid
           /\ ~Rediscovered(last'.ev) => hub'.devices = hub.devices ]_vars

\* C9 witness: a command was refused with a wrong code while the program
\* was off, and the registry still shows it off
C9_Witness ==
    /\ IsActivate(last) /\ PutSent(last.ev) /\ ~PutOk(last.ev)
    /\ last.prog = 2
    /\ \E j \in 1..Len(hub.devices[1].programs) :
          /\ hub.devices[1].programs[j].id = 2
          /\ ~hub.devices[1].programs[j].running


\* the entries of a registry other than those of program p on device d
Others_of(devices, d, p) ==
    [k \in 1..Len(devices) |->
        [j \in 1..Len(devices[k].programs) |->
            IF devices[k].pentair_device_id = d
               /\ devices[k].programs[j].id = p
            THEN "the program"
            ELSE [running |-> devices[k].programs[j].running,
                  control_value |-> devices[k].programs[j].control_value]]]

\* C11 (as claimed): a command for program p on device d changes running
\* and control_value of no other program of the registry.
C11_OthersUntouched ==
    [][ IsCommand(last')
        => Others_of(SubSeq(hub'.devices, 1, Len(hub.devices)),
                     last'.dev, last'.prog)
              = Others_of(hub.devices, last'.dev, last'.prog) ]_vars

\* C11 (amended): a command for program p on device d leaves running and
\* control_value of every other program as its token check left them, and
\* unchanged when that check found the same token; so a program that was
\* running stays running when another one is activated.
C11_NoExclusivity ==
    [][ IsCommand(last')
        => /\ Others_of(hub'.devices, last'.dev, last'.prog)
                  = Others_of(last'.mid, last'.dev, last'.prog)
           /\ ~Rediscovered(last'.ev)
              => Others_of(hub'.devices, last'.dev, last'.prog)
                    = Others_of(hub.devices, last'.dev, last'.prog) ]_vars

\* C11 witness: program 6 has just been activated while program 2 was
\* running, and both are running
C11_Witness ==
    /\ IsActivate(last) /\ PutOk(last.ev) /\ last.prog = 6
    /\ \E i, j \in 1..Len(hub.devices[1].programs) :
          /\ hub.devices[1].programs[i].id = 2
          /\ hub.devices[1].programs[i].running
          /\ hub.devices[1].programs[j].id = 6
          /\ hub.devices[1].programs[j].running

\* C13: in every Device of the registry no two entries of the program
\* collection have the same identity.
C13_UniqueIdentity ==
    \A k \in 1..Len(hub.devices) :
        \A i, j \in 1..Len(hub.devices[k].programs) :
            hub.devices[k].programs[i].id = hub.devices[k].programs[j].id
            => i = j

\* C13 witness: a device has six programs after a second status refresh
C13_Witness ==
    /\ last.op = "update_status" /\ NumFetch(last.ev) = 1
    /\ Len(hub.devices) >= 1
    /\ Len(hub.devices[1].programs) = 6

\* C14: every Program of the registry has running = (control_value = 3).
C14_RunningIsControlValue ==
    \A k \in 1..Len(hub.devices) :
        \A j \in 1..Len(hub.devices[k].programs) :
            hub.devices[k].programs[j].running
                <=> (hub.devices[k].programs[j].control_value = 3)

\* C14 witness: a program stopped by an accepted deactivate command after
\* it was running shows running = false and control_value = 0
C14_Witness ==
    /\ IsDeactivate(last) /\ PutOk(last.ev) /\ last.prog = 2
    /\ \E j \in 1..Len(hub.devices[1].programs) :
          /\ hub.devices[1].programs[j].id = 2
          /\ ~hub.devices[1].programs[j].running
          /\ hub.devices[1].programs[j].control_value = 0

\* C16: a status update returns normally, whatever the remote answers.
C16_NeverRaises == last.op = "update_status" => ~last.exc

\* C18: when the credential exchange of a refresh fails, the stored token
\* keeps its value, so the token and the signing triple always come from
\* the same refresh.
C18_PriorCredentialKept ==
    [][ (\E k \in Calls(last'.ev, "exchange") : ~last'.ev[k].ok)
        => /\ hub'.AWS_TOKEN = hub.AWS_TOKEN
           /\ hub'.creds = hub.creds
           /\ hub'.creds # None => hub'.AWS_TOKEN = hub'.creds ]_vars


PumpPrograms(m) == {m.low, m.medium, m.high, m.max}

\* _program_to_speed[id]: a dict literal, so a later key wins
program_to_speed(m, id) ==
    IF id = m.max THEN 100
    ELSE IF id = m.high THEN 75
    ELSE IF id = m.medium THEN 50
    ELSE 30

\* _update_preset_mode
update_preset_mode(speed) ==
    IF speed >= 100 THEN "max"
    ELSE IF speed >= 75 THEN "high"
    ELSE IF speed >= 50 THEN "medium"
    ELSE IF speed >= 30 THEN "low"
    ELSE "off"

\* variant: every running program counts, pump speed or not
RunningPump_any(m, programs, i) ==
    {j \in i..Len(programs) : programs[j].running}

\* variant: only the first program of the list is looked at
RunningPump_one(m, programs, i) ==
    {j \in i..1 : programs[j].running /\ programs[j].id \in PumpPrograms(m)}

\* indices of the running pump-speed programs of a program list, from i on
RunningPump(m, programs, i) ==
    {j \in i..Len(programs) :
        programs[j].running /\ programs[j].id \in PumpPrograms(m)}

Min(S) == CHOOSE x \in S : \A y \in S : x <= y

\* _update_state_from_device: the first running pump program decides
update_state_from_device(f, device) ==
    LET R == RunningPump(f.program_mappings, device.programs, 1)
    IN  IF R # {}
        THEN LET speed == program_to_speed(f.program_mappings,
                                           device.programs[Min(R)].id)
             IN  [f EXCEPT !.percentage = speed, !.is_on = TRUE,
                           !.preset_mode = update_preset_mode(speed)]
        ELSE [f EXCEPT !.percentage = 0, !.is_on = FALSE,
                       !.preset_mode = "off"]

\* variant: the clamp threshold is 30 instead of 50
check_heater_safety_low(f, requested_speed) ==
    IF f.heater_on /\ requested_speed < 30 /\ requested_speed > 0
    THEN [speed |-> 50, override |-> TRUE]
    ELSE IF f.heater_on /\ requested_speed = 0
    THEN [speed |-> IF f.percentage > 0 THEN f.percentage ELSE 50,
          override |-> f.minimum_speed_override]
    ELSE [speed |-> requested_speed, override |-> FALSE]

\* variant: a request of 0 is not rejected
check_heater_safety_zero(f, requested_speed) ==
    IF f.heater_on /\ requested_speed < 50 /\ requested_speed > 0
    THEN [speed |-> 50, override |-> TRUE]
    ELSE [speed |-> requested_speed, override |-> FALSE]

\* _check_heater_safety: the speed to apply and the override flag
check_heater_safety(f, requested_speed) ==
    IF f.heater_on /\ requested_speed < 50 /\ requested_speed > 0
    THEN [speed |-> 50, override |-> TRUE]
    ELSE IF f.heater_on /\ requested_speed = 0
    THEN [speed |-> IF f.percentage > 0 THEN f.percentage ELSE 50,
          override |-> f.minimum_speed_override]
    ELSE [speed |-> requested_speed, override |-> FALSE]

\* line 239: when the debounce delay of a request made at t is over
DebounceDue(t) == t + DEBOUNCE_DELAY

\* line 210
Clamp(percentage) ==
    IF percentage < 0 THEN 0 ELSE IF percentage > 100 THEN 100 ELSE percentage

\* async_set_percentage at time t; the new task replaces the previous one,
\* which cancel() stops where it is (lines 223-224)
async_set_percentage(f, percentage, t) ==
    LET req == Clamp(percentage)
        chk == check_heater_safety(f, req)
        safe_speed == chk.speed
        f1 == [f EXCEPT !.minimum_speed_override = chk.override,
                        !.seen.req_time = t,
                        !.seen.req_safe = safe_speed]
    IN  IF safe_speed # req /\ safe_speed = f.percentage
        THEN f1
        ELSE [f1 EXCEPT
                !.pending_speed_change = safe_speed,
                !.last_speed_change = t,
                !.task = [NoTask EXCEPT !.state = "sleeping",
                                        !.speed = safe_speed,
                                        !.due = DebounceDue(t),
                                        !.req = req,
                                        !.req_heater = f.heater_on]]

\* variant: the bucket bounds are exclusive
SpeedBucket_strict(m, speed) ==
    IF speed = 0 THEN [target |-> None, actual |-> 0]
    ELSE IF speed < 30 THEN [target |-> m.low, actual |-> 30]
    ELSE IF speed < 50 THEN [target |-> m.medium, actual |-> 50]
    ELSE IF speed < 75 THEN [target |-> m.high, actual |-> 75]
    ELSE [target |-> m.max, actual |-> 100]

\* lines 253-267: the bucket of a speed
SpeedBucket(m, speed) ==
    IF speed = 0 THEN [target |-> None, actual |-> 0]
    ELSE IF speed <= 30 THEN [target |-> m.low, actual |-> 30]
    ELSE IF speed <= 50 THEN [target |-> m.medium, actual |-> 50]
    ELSE IF speed <= 75 THEN [target |-> m.high, actual |-> 75]
    ELSE [target |-> m.max, actual |-> 100]

\* variant: async_turn_off never refuses
TurnOffBlocked_never(f) == FALSE

\* lines 354-375: async_turn_off refuses while the heater flag is set
TurnOffBlocked(f) == f.heater_on


(***************************************************************************)
(* The pump fan acting on the hub                                          *)
(***************************************************************************)
FanRequests == {0, 30, 75}

\* the device the entities were created for
EntityDevice == hub.devices[1]
EntityDeviceId == EntityDevice.pentair_device_id

Quiet(put, fetch) == Answer(FALSE, "ok", "ok", fetch, put, S14_NONE)

\* what the remote may answer to a command and to a status request
PutAnswers == IF cloud.accepts_all THEN {"ok"} ELSE {"ok", "code"}
FetchAnswers == IF cloud.accepts_all THEN {"ok"} ELSE {"ok", "transport"}

Note(name, n, text) == [NoOp EXCEPT !.op = name, !.prog = n, !.note = text]

\* the state of the device when the entities start: every program off, or
\* the medium-speed program running
StartE10 ==
    { [n \in Slots |-> 0],
      [n \in Slots |-> IF n = DefaultConfig.speed_medium THEN 3 ELSE 0] }

\* setup happened just now, or more than the minimum interval ago
StartTimes == {0 - (UPDATE_MIN_SECONDS + 1), 0}

EntitiesInit(accepts_all) ==
    \E e10 \in StartE10, t0 \in StartTimes :
        /\ hub = SetUpAt(t0, e10).hub
        /\ cloud = [SetUpAt(t0, e10).cloud EXCEPT !.accepts_all = accepts_all]
        /\ now = 0
        /\ fan = update_state_from_device(NewFan(DefaultConfig),
                                          SetUpAt(t0, e10).hub.devices[1])
        /\ num = NewNum(DefaultConfig)
        /\ sw = NewSw(DefaultConfig)
        /\ clim = NewClim(DefaultConfig)
        /\ last = NoOp
        /\ ops = 0
        /\ workers = NoWorkers
    /\ workers = NoWorkers

FanInit == EntitiesInit(FALSE)

Others == UNCHANGED <<num, sw, clim>>

\* an operation is started from outside / a started operation goes on
Start == ops < MaxOps /\ ops' = ops + 1 /\ UNCHANGED workers
Step == UNCHANGED <<ops, workers>>

\* time passes while a speed change waits for its delay
FanTick ==
    /\ Step
    /\ fan.task.state = "sleeping"
    /\ now < fan.task.due
    /\ now' = now + 1
    /\ last' = Note("tick", 0, "")
    /\ UNCHANGED <<hub, cloud, fan>>
    /\ Others

SetPercentage(p) ==
    /\ fan' = async_set_percentage(fan, p, now)
    /\ last' = Note("set_percentage", p,
                    IF /\ check_heater_safety(fan, Clamp(p)).speed # Clamp(p)
                       /\ check_heater_safety(fan, Clamp(p)).speed
                              = fan.percentage
                    THEN "dropped" ELSE "scheduled")
    /\ UNCHANGED <<hub, cloud, now>>
    /\ Others

FanSetPercentage == Start /\ \E p \in FanRequests : SetPercentage(p)

\* _debounced_speed_change after the sleep, and the start of
\* _execute_speed_change (lines 242-269)
FanWake ==
    /\ Step
    /\ fan.task.state = "sleeping"
    /\ now >= fan.task.due
    /\ IF fan.pending_speed_change = fan.task.speed
       THEN LET b == SpeedBucket(fan.program_mappings, fan.task.speed)
            IN  fan' = [fan EXCEPT
                          !.seen.exec_ok = TRUE,
                          !.task.state = "running",
                          !.task.pc = "stop",
                          !.task.i = 1,
                          !.task.target = b.target,
                          !.task.actual = b.actual]
       ELSE fan' = [fan EXCEPT !.task.state = "done"]
    /\ last' = Note("wake", fan.task.speed, "")
    /\ UNCHANGED <<hub, cloud, now>>
    /\ Others

\* lines 272-283: stop the next running pump program
FanExecStop ==
    /\ Step
    /\ \E put \in PutAnswers :
        /\ fan.task.state = "running" /\ fan.task.pc = "stop"
        /\ RunningPump(fan.program_mappings, EntityDevice.programs,
                       fan.task.i) # {}
        /\ LET j == Min(RunningPump(fan.program_mappings,
                                    EntityDevice.programs, fan.task.i))
               id == EntityDevice.programs[j].id
               st == stop_program(Here, Quiet(put, "ok"), EntityDeviceId, id)
           IN  /\ Commit(st)
               /\ fan' = [fan EXCEPT !.task.i = j + 1,
                                     !.seen.exec_ok = @ /\ PutOk(st.ev)]
               /\ last' = Op("exec_stop", EntityDeviceId, id, st)
        /\ UNCHANGED now
        /\ Others

\* lines 285-309: start the target program and branch on the result
FanExecStart ==
    /\ Step
    /\ \E put \in PutAnswers :
        /\ fan.task.state = "running" /\ fan.task.pc = "stop"
        /\ RunningPump(fan.program_mappings, EntityDevice.programs,
                       fan.task.i) = {}
        /\ IF fan.task.target # None
           THEN LET st == start_program(Here, Quiet(put, "ok"), EntityDeviceId,
                                        fan.task.target)
                    success == st.ret
                IN  /\ Commit(st)
                    /\ IF Truthy(success)
                       THEN fan' = [fan EXCEPT
                               !.percentage = fan.task.actual,
                               !.is_on = TRUE,
                               !.preset_mode = update_preset_mode(fan.task.actual),
                               !.task.pc = "refresh",
                               !.seen.exec_ok = TRUE]
                       ELSE fan' = [fan EXCEPT !.task.state = "done",
                                               !.seen.exec_ok = TRUE]
                    /\ last' = [Op("exec_start", EntityDeviceId,
                                   fan.task.target, st) EXCEPT
                                   !.note = IF Truthy(success) THEN "success"
                                            ELSE "failure"]
           ELSE /\ fan' = [fan EXCEPT !.percentage = 0, !.is_on = FALSE,
                                      !.preset_mode = "off",
                                      !.task.pc = "refresh",
                                      !.seen.exec_ok = TRUE]
                /\ last' = Note("exec_off", 0, "")
                /\ UNCHANGED <<hub, cloud>>
        /\ UNCHANGED now
        /\ Others

\* lines 311-314, and the except clause of line 325
FanExecRefresh ==
    /\ Step
    /\ \E fetch \in FetchAnswers :
        /\ fan.task.state = "running" /\ fan.task.pc = "refresh"
        /\ LET st == update_pentair_devices_status(Here, Quiet("ok", fetch))
           IN  /\ Commit(st)
               /\ fan' = IF st.exc THEN [fan EXCEPT !.task.state = "done"]
                         ELSE [fan EXCEPT !.task.pc = "reread"]
               /\ last' = Op("exec_refresh", "", 0, st)
        /\ UNCHANGED now
        /\ Others

\* lines 317-323
FanExecReread ==
    /\ Step
    /\ fan.task.state = "running" /\ fan.task.pc = "reread"
    /\ fan' = [update_state_from_device(fan, EntityDevice) EXCEPT
                  !.task.state = "done"]
    /\ last' = Note("exec_reread", 0, "")
    /\ UNCHANGED <<hub, cloud, now>>
    /\ Others

\* async_turn_off, lines 350-379
FanTurnOff ==
    /\ Start
    /\ fan.off.pc = "idle"
    /\ IF TurnOffBlocked(fan)
       THEN /\ fan' = fan
            /\ last' = [Note("turn_off", 0, "blocked") EXCEPT !.exc = TRUE]
       ELSE /\ fan' = [fan EXCEPT !.off = [pc |-> "stop", i |-> 1,
                                           any_failed |-> FALSE],
                                  !.seen.off_ok = TRUE]
            /\ last' = Note("turn_off", 0, "stopping")
    /\ UNCHANGED <<hub, cloud, now>>
    /\ Others

\* lines 380-390
FanOffStop ==
    /\ Step
    /\ \E put \in PutAnswers :
        /\ fan.off.pc = "stop"
        /\ RunningPump(fan.program_mappings, EntityDevice.programs,
                       fan.off.i) # {}
        /\ LET j == Min(RunningPump(fan.program_mappings,
                                    EntityDevice.programs, fan.off.i))
               id == EntityDevice.programs[j].id
               st == stop_program(Here, Quiet(put, "ok"), EntityDeviceId, id)
               success == st.ret
           IN  /\ Commit(st)
               /\ fan' = [fan EXCEPT
                            !.off.i = j + 1,
                            !.off.any_failed = @ \/ ~Truthy(success),
                            !.seen.off_ok = @ /\ PutOk(st.ev)]
               /\ last' = Op("off_stop", EntityDeviceId, id, st)
        /\ UNCHANGED now
        /\ Others

\* lines 392-410
FanOffFinish ==
    /\ Step
    /\ \E fetch \in FetchAnswers :
        /\ fan.off.pc = "stop"
        /\ RunningPump(fan.program_mappings, EntityDevice.programs,
                       fan.off.i) = {}
        /\ IF fan.off.any_failed
           THEN /\ fan' = [fan EXCEPT !.off.pc = "idle", !.seen.off_ok = TRUE]
                /\ last' = Note("off_finish", 0, "failed")
                /\ UNCHANGED <<hub, cloud>>
           ELSE LET st == update_pentair_devices_status(Here, Quiet("ok", fetch))
                IN  /\ Commit(st)
                    /\ fan' = [fan EXCEPT !.percentage = 0, !.is_on = FALSE,
                                          !.preset_mode = "off",
                                          !.off.pc = "idle"]
                    /\ last' = [Op("off_finish", "", 0, st) EXCEPT
                                   !.note = "off"]
        /\ UNCHANGED now
        /\ Others

\* variant: every heater-on update asks for the increase
NeedsFollowup_always(f, heater_on) == heater_on

\* line 480: the heater turned on and the pump runs below 50
NeedsFollowup(f, heater_on) ==
    heater_on /\ 0 < f.percentage /\ f.percentage < 50

\* update_heater_state, lines 474-482
FanUpdateHeaterState ==
    /\ Start
    /\ \E heater_on \in BOOLEAN :
        /\ fan' = [fan EXCEPT
                     !.heater_on = heater_on,
                     !.followup = @ \/ NeedsFollowup(fan, heater_on)]
        /\ last' = Note("update_heater_state", IF heater_on THEN 1 ELSE 0, "")
        /\ UNCHANGED <<hub, cloud, now>>
        /\ Others

\* the task created at line 482 runs
FanFollowup ==
    /\ Step
    /\ fan.followup
    /\ fan' = [async_set_percentage(fan, 50, now) EXCEPT !.followup = FALSE]
    /\ last' = Note("followup", 50, "")
    /\ UNCHANGED <<hub, cloud, now>>
    /\ Others

\* _async_scheduled_update, lines 503-518
FanScheduledUpdate ==
    /\ Start
    /\ \E fetch \in FetchAnswers :
        /\ LET st == update_pentair_devices_status(Here, Quiet("ok", fetch))
           IN  /\ Commit(st)
               /\ fan' = IF st.exc THEN fan
                         ELSE update_state_from_device(fan, st.hub.devices[1])
               /\ last' = Op("scheduled_update", "", 0, st)
        /\ UNCHANGED now
        /\ Others

FanNext ==
    \/ FanTick
    \/ FanSetPercentage
    \/ FanWake
    \/ FanExecStop
    \/ FanExecStart
    \/ FanExecRefresh
    \/ FanExecReread
    \/ FanTurnOff
    \/ FanOffStop
    \/ FanOffFinish
    \/ FanUpdateHeaterState
    \/ FanFollowup
    \/ FanScheduledUpdate

FanSpec == FanInit /\ [][FanNext]_vars

(***************************************************************************)
(* Claims about the pump fan                                               *)
(***************************************************************************)

\* C2: with the heater flag on, a turn-off request raises, starts no stop
\* loop and sends no command, and leaves percentage, is_on and preset mode
\* (and the hub and the remote side) as they were.
C2_TurnOffBlocked ==
    [][ (last'.op = "turn_off" /\ fan.heater_on)
        => /\ last'.exc
           /\ ~PutSent(last'.ev)
           /\ fan'.off.pc = "idle"
           /\ fan'.percentage = fan.percentage
           /\ fan'.is_on = fan.is_on
           /\ fan'.preset_mode = fan.preset_mode
           /\ hub' = hub /\ cloud' = cloud ]_vars

\* C2 witness: the pump runs at 50, the heater is on, and a turn-off request
\* has just been refused
C2_Witness ==
    /\ last.op = "turn_off" /\ last.exc
    /\ fan.heater_on /\ fan.percentage = 50 /\ fan.is_on

\* a speed-change task that exists because of a request for percentage req
\* made while the heater flag was on
FromHeaterRequest(req) ==
    /\ fan.task.state # "none"
    /\ fan.task.req_heater
    /\ fan.task.req = req

\* C4: with the heater on, the safety check answers 50 with the override
\* flag for every p in 1..49; such a request sets the flag, and the task it
\* creates (if any) is for 50 and executes the 50 bucket.
C4_HeaterClamp ==
    /\ [] \A p \in 1..49 :
            check_heater_safety([fan EXCEPT !.heater_on = TRUE], p)
                = [speed |-> 50, override |-> TRUE]
    /\ [] \A p \in 1..49 :
            FromHeaterRequest(p)
            => /\ fan.task.speed = 50
               /\ fan.task.state = "running" => fan.task.actual = 50
    /\ [][ ( /\ last'.op = "set_percentage" /\ fan.heater_on
             /\ 0 < last'.prog /\ last'.prog < 50 )
           => /\ fan'.minimum_speed_override
              /\ fan'.seen.req_safe = 50
              /\ last'.note = "scheduled"
                 => fan'.task.speed = 50 /\ fan'.pending_speed_change = 50
         ]_vars

\* C4 witness: a request for 30 made with the heater on is being executed
\* as 50, with the override flag set
C4_Witness ==
    /\ FromHeaterRequest(30)
    /\ fan.task.state = "running"
    /\ fan.task.actual = 50
    /\ fan.minimum_speed_override

\* C5: with the heater on, a request for 0 is answered with the current
\* percentage when that is not 0 and with 50 otherwise; the task it creates
\* (if any) is never for 0 and never takes the full-stop branch.
C5_RejectZero ==
    /\ [] ( check_heater_safety([fan EXCEPT !.heater_on = TRUE], 0).speed
              = IF fan.percentage > 0 THEN fan.percentage ELSE 50 )
    /\ [] ( FromHeaterRequest(0)
            => /\ fan.task.speed > 0
               /\ fan.task.state = "running" => fan.task.target # None )
    /\ [][ (last'.op = "set_percentage" /\ fan.heater_on /\ last'.prog = 0)
           => /\ fan'.seen.req_safe
                    = IF fan.percentage > 0 THEN fan.percentage ELSE 50
              /\ last'.note = "scheduled"
                 => fan'.task.speed = fan'.seen.req_safe
         ]_vars

\* C5 witness: a request for 0 made with the heater on while the pump was
\* off is being executed as 50
C5_Witness ==
    /\ FromHeaterRequest(0)
    /\ fan.task.state = "running"
    /\ fan.task.actual = 50

\* C6: when the requests made since the pending speed change was scheduled
\* came less than the debounce delay apart, the speed change that starts is
\* for the (safety-adjusted) percentage of the last request and starts no
\* earlier than the debounce delay after that request.
C6_Debounce ==
    [][ ( /\ last'.op = "wake" /\ fan'.task.state = "running"
          /\ fan.seen.req_time - fan.last_speed_change < DEBOUNCE_DELAY )
        => /\ fan.task.speed = fan.seen.req_safe
           /\ now >= fan.seen.req_time + DEBOUNCE_DELAY ]_vars

\* C10: the fan takes its success path after start_program exactly when the
\* remote accepted the command.
C10_SuccessBoolean ==
    last.op = "exec_start" => ((last.note = "success") <=> PutOk(last.ev))

(***************************************************************************)
(* The speed-to-program mapping for every percentage                       *)
(***************************************************************************)
Percentages == 0..100

\* one request, for any percentage, while no speed change is pending
MapSetPercentage ==
    /\ Start
    /\ fan.task.state = "none"
    /\ \E p \in Percentages : SetPercentage(p)

MapNext ==
    \/ MapSetPercentage
    \/ FanTick
    \/ FanWake

MapSpec == FanInit /\ [][MapNext]_vars

BucketInputs == <<1, 30, 31, 50, 51, 75, 76, 100>>
BucketOutputs == <<30, 30, 50, 50, 75, 75, 100, 100>>

\* C7: a speed change for p executes the low program and 30 for 1..30, the
\* medium program and 50 for 31..50, the high program and 75 for 51..75, the
\* max program and 100 for 76..100, and no program for 0; the eight listed
\* inputs give the eight listed speeds.
C7_Buckets ==
    /\ fan.task.state = "running"
       => LET p == fan.task.speed
              m == fan.program_mappings
              t == [target |-> fan.task.target, actual |-> fan.task.actual]
          IN  /\ p = 0 => t = [target |-> None, actual |-> 0]
              /\ (1 <= p /\ p <= 30) => t = [target |-> m.low, actual |-> 30]
              /\ (30 < p /\ p <= 50) => t = [target |-> m.medium, actual |-> 50]
              /\ (50 < p /\ p <= 75) => t = [target |-> m.high, actual |-> 75]
              /\ p > 75 => t = [target |-> m.max, actual |-> 100]
    /\ \A k \in 1..8 :
          SpeedBucket(fan.program_mappings, BucketInputs[k]).actual
              = BucketOutputs[k]

\* C7 witness: a request for 31 is being executed as the medium program, 50
C7_Witness ==
    /\ fan.task.state = "running"
    /\ fan.task.speed = 31
    /\ fan.task.target = fan.program_mappings.medium
    /\ fan.task.actual = 50


(***************************************************************************)
(* PentairPumpSpeed (number), PentairRelaySwitch (heater) and              *)
(* PentairPoolHeater (climate)                                             *)
(***************************************************************************)
SLEEP_2 == 8                  \* asyncio.sleep(2), in quarters of a second
SLEEP_1 == 4                  \* asyncio.sleep(1), in quarters of a second

\* Python truthiness of an optional program id
TruthyId(id) == id # None /\ id # 0

Abs(x) == IF x < 0 THEN 0 - x ELSE x

\* min(speeds, key=lambda x: abs(x - value)): the first of the closest
ClosestSpeed(speed_programs, value) ==
    LET best == Min({Abs(speed_programs[k].speed - value) :
                        k \in 1..Len(speed_programs)})
        first == Min({k \in 1..Len(speed_programs) :
                        Abs(speed_programs[k].speed - value) = best})
    IN  speed_programs[first]

\* PentairPumpSpeed.update after its status call: the first speed whose
\* program is the active pump program
number_read(n, device) ==
    LET active_program == device.active_pump_program
        M == {k \in 1..Len(n.speed_programs) :
                 n.speed_programs[k].program = active_program}
    IN  IF TruthyId(active_program)
        THEN IF M # {}
             THEN [n EXCEPT !.current_speed = n.speed_programs[Min(M)].speed]
             ELSE n
        ELSE [n EXCEPT !.current_speed = 0]

\* an entity operation threads the hub state and its own record
Ent(st, e) == [st |-> st, e |-> e]

Later(st, d) == [st EXCEPT !.now = @ + d]

\* The value of a one-element set; intermediate results are held in such
\* sets so that each is computed once.
The(S) == CHOOSE x \in S : TRUE

\* PentairPumpSpeed.update
number_update(st, o, n) ==
    The({ IF st1.exc THEN Ent(st1, n)
          ELSE Ent(st1, number_read(n, st1.hub.devices[1])) :
          st1 \in {update_pentair_devices_status(st, o)} })

\* PentairPumpSpeed.async_set_native_value
number_set_native_value(st, o, n, value) ==
    IF value = 0
    THEN LET active_program == st.hub.devices[1].active_pump_program
         IN  Ent(IF TruthyId(active_program)
                 THEN deactivate_program(st, o,
                          st.hub.devices[1].pentair_device_id, active_program)
                 ELSE st,
                 [n EXCEPT !.current_speed = 0])
    ELSE LET c == ClosestSpeed(n.speed_programs, value)
         IN  IF TruthyId(c.program)
             THEN Ent(activate_program_concurrent(st, o,
                          st.hub.devices[1].pentair_device_id, c.program),
                      [n EXCEPT !.current_speed = c.speed])
             ELSE Ent(st, n)

\* variant: the pump is not started
StartPumpForHeater_skip(st, o, speed_medium, n) == Ent(st, n)

\* switch lines 121-150 / climate lines 168-204: start the pump at medium
\* speed, wait, refresh the status, wait, ask for an update of the number
\* entity; an error of the status call leaves the handler
StartPumpForHeater(st, o, speed_medium, n) ==
    LET S1 == { activate_program_concurrent(st, o,
                    st.hub.devices[1].pentair_device_id, speed_medium) }
        S2 == { update_pentair_devices_status(
                    [Later(st1, SLEEP_2) EXCEPT
                        !.ev = Append(@, Call("update_status", "", 0, 0, TRUE))],
                    o) : st1 \in S1 }
    IN  The({ IF st2.exc THEN Ent(st2, n)
              ELSE number_update(Later(st2, SLEEP_1), o, n) : st2 \in S2 })

\* variant: a heater command that was not accepted is sent again
HeaterCommand_retry(st, o, program_id) ==
    The({ IF st1.ev[Len(st1.ev)].ok THEN st1
          ELSE activate_program_concurrent(
                   st1, o, st1.hub.devices[1].pentair_device_id, program_id) :
          st1 \in { activate_program_concurrent(
                       st, o, st.hub.devices[1].pentair_device_id,
                       program_id) } })

\* switch lines 162-166 / climate lines 208-212: the heater program's
\* command
HeaterCommand(st, o, program_id) ==
    activate_program_concurrent(st, o, st.hub.devices[1].pentair_device_id,
                                program_id)

\* PentairRelaySwitch.async_turn_on for the heater relay: the result and
\* the number entity it asked to update
switch_turn_on(st, o, s, n) ==
    The({ IF r.st.exc THEN [st |-> r.st, sw |-> s, num |-> r.e]
          ELSE [st |-> HeaterCommand(r.st, o, s.relay_program),
                sw |-> [s EXCEPT !.is_on = TRUE],
                num |-> r.e] :
          r \in {StartPumpForHeater(st, o, s.speed_medium, n)} })

\* PentairRelaySwitch.async_turn_off
switch_turn_off(st, o, s) ==
    Ent(deactivate_program(st, o, st.hub.devices[1].pentair_device_id,
                           s.relay_program),
        [s EXCEPT !.is_on = FALSE])

\* PentairRelaySwitch.update after its status call
switch_read(s, device) ==
    LET M == {j \in 1..Len(device.programs) :
                 device.programs[j].id = s.relay_program}
    IN  IF M # {} THEN [s EXCEPT !.is_on = device.programs[Min(M)].running]
        ELSE s

\* PentairPoolHeater._async_turn_on_heater
climate_turn_on_heater(st, o, c, n) ==
    The({ IF r.st.exc THEN [st |-> r.st, clim |-> c, num |-> r.e]
          ELSE [st |-> HeaterCommand(r.st, o, c.heater_program),
                clim |-> [c EXCEPT !.heater_on = TRUE, !.is_heating = TRUE],
                num |-> r.e] :
          r \in { IF ~st.hub.devices[1].pump_running
                  THEN StartPumpForHeater(st, o, c.speed_medium, n)
                  ELSE Ent(st, n) } })

\* PentairPoolHeater._async_turn_off_heater
climate_turn_off_heater(st, o, c, n) ==
    [st |-> deactivate_program(st, o, st.hub.devices[1].pentair_device_id,
                               c.heater_program),
     clim |-> [c EXCEPT !.heater_on = FALSE, !.is_heating = FALSE],
     num |-> n]

\* PentairPoolHeater._async_control_heater
climate_control_heater(st, o, c, n) ==
    IF c.hvac_mode = "off"
    THEN IF c.heater_on THEN climate_turn_off_heater(st, o, c, n)
         ELSE [st |-> st, clim |-> c, num |-> n]
    ELSE IF c.current_temperature = "unknown"
    THEN [st |-> st, clim |-> c, num |-> n]
    ELSE IF c.current_temperature = "cold" /\ ~c.heater_on
    THEN climate_turn_on_heater(st, o, c, n)
    ELSE IF c.current_temperature = "hot" /\ c.heater_on
    THEN climate_turn_off_heater(st, o, c, n)
    ELSE [st |-> st, clim |-> c, num |-> n]

\* PentairPoolHeater.update after its status call
climate_read(c, device) ==
    LET M == {j \in 1..Len(device.programs) :
                 device.programs[j].id = c.heater_program}
    IN  IF M # {}
        THEN [c EXCEPT
                !.heater_on = device.programs[Min(M)].running,
                !.is_heating = device.programs[Min(M)].running
                               /\ c.hvac_mode = "heat"]
        ELSE c


(***************************************************************************)
(* The integrated system: the four entities of one device on one hub, the  *)
(* remote accepting every command                                          *)
(***************************************************************************)
SysRequests == {0, 50}

\* s14 as the device may report it: no active program, or the first armed
\* one
SysAnswers ==
    {Answer(FALSE, "ok", "ok", "ok", put, s14) :
        put \in (IF cloud.accepts_all THEN {"ok"} ELSE {"ok", "code", "first"}),
        s14 \in {S14_NONE, FirstArmed}}

SysInit == EntitiesInit(TRUE)

SysSwitchTurnOn ==
    /\ Start
    /\ \E o \in SysAnswers :
          \E r \in {switch_turn_on(Here, o, sw, num)} :
              /\ Commit(r.st)
              /\ now' = r.st.now
              /\ sw' = r.sw
              /\ num' = r.num
              /\ last' = Op("switch_turn_on", "", 0, r.st)
    /\ UNCHANGED <<fan, clim>>

SysSwitchTurnOff ==
    /\ Start
    /\ \E o \in SysAnswers :
          \E r \in {switch_turn_off(Here, o, sw)} :
              /\ Commit(r.st)
              /\ sw' = r.e
              /\ last' = Op("switch_turn_off", "", 0, r.st)
    /\ UNCHANGED <<now, fan, num, clim>>

SysSwitchUpdate ==
    /\ Start
    /\ \E o \in SysAnswers :
          \E st \in {update_pentair_devices_status(Here, o)} :
              /\ Commit(st)
              /\ sw' = switch_read(sw, st.hub.devices[1])
              /\ last' = Op("switch_update", "", 0, st)
    /\ UNCHANGED <<now, fan, num, clim>>

SysNumberSet ==
    /\ Start
    /\ \E o \in SysAnswers, value \in SysRequests :
          \E r \in {number_set_native_value(Here, o, num, value)} :
              /\ Commit(r.st)
              /\ num' = r.e
              /\ last' = Op("number_set", "", value, r.st)
    /\ UNCHANGED <<now, fan, sw, clim>>

SysNumberUpdate ==
    /\ Start
    /\ \E o \in SysAnswers :
          \E r \in {number_update(Here, o, num)} :
              /\ Commit(r.st)
              /\ num' = r.e
              /\ last' = Op("number_update", "", 0, r.st)
    /\ UNCHANGED <<now, fan, sw, clim>>

\* async_set_hvac_mode
SysClimateSetMode ==
    /\ Start
    /\ \E o \in SysAnswers, hvac_mode \in {"heat", "off"} :
          \E r \in {climate_control_heater(
                       Here, o, [clim EXCEPT !.hvac_mode = hvac_mode], num)} :
              /\ Commit(r.st)
              /\ now' = r.st.now
              /\ clim' = r.clim
              /\ num' = r.num
              /\ last' = Op("climate_set_mode", "", 0, r.st)
    /\ UNCHANGED <<fan, sw>>

\* _async_temperature_changed
SysClimateTemperature ==
    /\ Start
    /\ \E o \in SysAnswers, t \in {"cold", "hot"} :
          \E r \in {climate_control_heater(
                       Here, o, [clim EXCEPT !.current_temperature = t], num)} :
              /\ Commit(r.st)
              /\ now' = r.st.now
              /\ clim' = r.clim
              /\ num' = r.num
              /\ last' = Op("climate_temperature", "", 0, r.st)
    /\ UNCHANGED <<fan, sw>>

SysClimateUpdate ==
    /\ Start
    /\ \E o \in SysAnswers :
          \E st \in {update_pentair_devices_status(Here, o)} :
              /\ Commit(st)
              /\ clim' = climate_read(clim, st.hub.devices[1])
              /\ last' = Op("climate_update", "", 0, st)
    /\ UNCHANGED <<now, fan, num, sw>>

SysNext ==
    \/ SysSwitchTurnOn
    \/ SysSwitchTurnOff
    \/ SysSwitchUpdate
    \/ SysNumberSet
    \/ SysNumberUpdate
    \/ SysClimateSetMode
    \/ SysClimateTemperature
    \/ SysClimateUpdate
    \/ FanSetPercentage
    \/ FanTick
    \/ FanWake
    \/ FanExecStop
    \/ FanExecStart
    \/ FanExecRefresh
    \/ FanExecReread
    \/ FanTurnOff
    \/ FanOffStop
    \/ FanOffFinish
    \/ FanScheduledUpdate

SysSpec == SysInit /\ [][SysNext]_vars

\* programs of the device, as the remote side has them
Armed(n) == cloud.e10[EntityDeviceId][n] = 3

\* no handler is between two of its steps
Quiescent == fan.task.state # "running" /\ fan.off.pc = "idle"

\* C1: whenever no handler is in progress, the heater program is armed only
\* if some pump-speed program is armed; the registry agrees.
C1_HeaterRequiresFlow ==
    Quiescent
    => /\ Armed(sw.relay_program)
          => \E n \in PumpPrograms(fan.program_mappings) : Armed(n)
       /\ ( \E j \in 1..Len(EntityDevice.programs) :
               /\ EntityDevice.programs[j].id = sw.relay_program
               /\ EntityDevice.programs[j].running )
          => RunningPump(fan.program_mappings, EntityDevice.programs, 1) # {}

(***************************************************************************)
(* PentairDevice.update_program on its own: one Device, programs upserted  *)
(* with every identity, name, type and control value                       *)
(***************************************************************************)
\* the arguments of an upsert
UpsertArgs ==
    [id : 1..3, name : {101, 202}, program_type : {0, MANUAL},
     control_value : {STOP_VALUE, START_VALUE}]

\* a Device as constructed: no programs yet
UpsertInit ==
    /\ hub = [NewHub EXCEPT !.devices = << PentairDevice(HubDevice) >>]
    /\ cloud = NewCloud
    /\ now = 0
    /\ fan = NewFan(DefaultConfig)
    /\ num = NewNum(DefaultConfig)
    /\ sw = NewSw(DefaultConfig)
    /\ clim = NewClim(DefaultConfig)
    /\ last = NoOp
    /\ ops = 0
    /\ workers = NoWorkers

\* one call of update_program; the history keeps its arguments
Upsert ==
    \E a \in UpsertArgs :
        /\ hub' = [hub EXCEPT !.devices[1].programs =
                      update_program(@, a.id, a.name, a.program_type,
                                     a.control_value)]
        /\ last' = [NoOp EXCEPT !.op = "update_program", !.dev = HubDevice,
                                !.prog = a.id, !.ev = << a >>]
        /\ UNCHANGED <<cloud, now>>
        /\ Idle

UpsertSpec == UpsertInit /\ [][Upsert]_vars

\* the program list of the Device
Programs_of(h) == h.devices[1].programs

\* C12: update_program is an order-preserving, idempotent upsert: an identity
\* already in the list has name, type, control value and running overwritten
\* at its position while the length and every other entry stay as they were;
\* a new identity is appended at the end; applying the same upsert a second
\* time changes nothing
C12_Upsert ==
    [][ last'.op = "update_program"
        => LET a == last'.ev[1]
               P == Programs_of(hub)
               Q == Programs_of(hub')
               made == PentairPumpProgram(a.id, a.name, a.program_type,
                                          a.control_value)
           IN  /\ (\E k \in 1..Len(P) : P[k].id = a.id)
                    => /\ Len(Q) = Len(P)
                       /\ \A k \in 1..Len(P) :
                             /\ Q[k].id = P[k].id
                             /\ P[k].id # a.id => Q[k] = P[k]
                             /\ P[k].id = a.id => Q[k] = made
               /\ ~(\E k \in 1..Len(P) : P[k].id = a.id)
                    => Q = Append(P, made)
               /\ update_program(Q, a.id, a.name, a.program_type,
                                 a.control_value) = Q ]_vars

\* an identity at the head of a full list was overwritten in place with new
\* values
C12_Witness ==
    /\ last.op = "update_program"
    /\ Len(Programs_of(hub)) = 3
    /\ Programs_of(hub)[1].id = last.prog
    /\ Programs_of(hub)[1].name = 202
    /\ Programs_of(hub)[1].running
    /\ Programs_of(hub)[2].name = 101

(***************************************************************************)
(* Status polls with every raw s14 value of the device                     *)
(***************************************************************************)
\* raw s14 as reported: a 0-based program index, 99, or no s14 field
RawS14 == (0..97) \cup {S14_NONE, Absent}

\* a hub set up long enough ago for the first poll to be due
PollInit ==
    /\ \E s \in {SetUpAt(0 - (UPDATE_MIN_SECONDS + 1), [n \in Slots |-> 0])} :
          hub = s.hub /\ cloud = s.cloud
    /\ now = 0
    /\ fan = NewFan(DefaultConfig)
    /\ num = NewNum(DefaultConfig)
    /\ sw = NewSw(DefaultConfig)
    /\ clim = NewClim(DefaultConfig)
    /\ last = NoOp
    /\ ops = 0
    /\ workers = NoWorkers

\* a poll that is due (one inside the minimum interval does nothing)
Poll ==
    \E raw \in RawS14, fetch \in {"ok", "undecodable"} :
        /\ UpdateAllowed(hub.last_update, now)
        /\ \E st \in {update_pentair_devices_status(
                         Here, Answer(FALSE, "ok", "ok", fetch, "ok", raw))} :
               /\ Commit(st)
               /\ last' = Op("update_status", HubDevice, raw, st)
        /\ UNCHANGED now
        /\ Idle

PollNext ==
    \/ HubTick
    \/ Poll

PollSpec == PollInit /\ [][PollNext]_vars

\* C15: a poll that fetches sets active_pump_program to i + 1 for a raw s14
\* of i in 0..97 and to None for a raw s14 of 99 or a missing s14 field; the
\* stored value is always None or a positive identity
C15_ActivePumpProgram ==
    [][ /\ ( last'.op = "update_status" /\ NumFetch(last'.ev) = 1 )
           => LET raw == last'.prog
                  a == hub'.devices[1].active_pump_program
              IN  /\ raw \in 0..97 => a = raw + 1
                  /\ raw \in {S14_NONE, Absent} => a = None
        /\ \A k \in 1..Len(hub'.devices) :
              \/ hub'.devices[k].active_pump_program = None
              \/ hub'.devices[k].active_pump_program >= 1 ]_vars

\* a poll decoded the largest index of the range
C15_Witness ==
    /\ last.op = "update_status"
    /\ NumFetch(last.ev) = 1
    /\ last.prog = 97
    /\ hub.devices[1].active_pump_program = 98
    /\ hub.devices[1].pump_running

(***************************************************************************)
(* Logging in: authenticate with every answer of the identity provider,    *)
(* between polls                                                           *)
(***************************************************************************)
\* what may happen to a login: the provider rejects the password ("bad"),
\* the network fails during u.authenticate ("bad") or during get_user
\* ("get_user"), or everything succeeds ("ok")
LoginOutcomes(password) ==
    IF password = "secret" /\ cloud.session_token < MaxToken
    THEN {"ok", "get_user", "bad"}
    ELSE {"bad"}

HubAuthenticate ==
    \E username \in {"user", "other"}, password \in {"secret", "wrong"} :
    \E outcome \in LoginOutcomes(password) :
        /\ \E st \in {authenticate(Here, username, password, outcome)} :
               /\ Commit(st)
               /\ last' = [Op("authenticate", username, 0, st)
                              EXCEPT !.note = outcome]
        /\ UNCHANGED now
        /\ Idle

\* ConfigFlow.async_step_user, line 103: populate_AWS_and_data_fields on
\* the hub that has no token yet
HubPopulate ==
    \E exch \in {"ok", "fail"} :
        /\ hub.AWS_TOKEN = None
        /\ \E st \in {populate_AWS_and_data_fields(
                         Here, Answer(FALSE, exch, "ok", "ok", "ok", S14_NONE))} :
               /\ Commit(st)
               /\ last' = Op("populate", "", 0, st)
        /\ UNCHANGED now
        /\ Idle

AuthNext ==
    \/ HubTick
    \/ HubUpdateStatus
    \/ HubAuthenticate
    \/ HubPopulate

\* a new hub, before its first login
AuthInit ==
    /\ hub = NewHub
    /\ HubInit

AuthSpec == AuthInit /\ [][AuthNext]_vars

\* C17: authenticate returns True exactly when the login succeeds; a failed
\* login returns False and leaves the stored session, username and password
\* as they were; a successful one stores the session and the credentials and
\* leaves the bearer token and the signing triple as they were
C17_Authenticate ==
    [][ last'.op = "authenticate"
        => /\ last'.ret = "True" <=> last'.note = "ok"
           /\ last'.ret = "False"
                => /\ hub'.cognito_client = hub.cognito_client
                   /\ hub'.username = hub.username
                   /\ hub'.password = hub.password
           /\ last'.ret = "True"
                => /\ hub'.cognito_client
                   /\ hub'.username = last'.dev
                   /\ hub'.password = "secret"
           /\ hub'.AWS_TOKEN = hub.AWS_TOKEN
           /\ hub'.creds = hub.creds ]_vars

\* the operations that may turn the heater on
HeaterOps == {"switch_turn_on", "climate_set_mode", "climate_temperature"}

\* the k-th remote call of an operation activates program p
ActivatePut(ev, k, p) ==
    /\ ev[k].call = "put"
    /\ ev[k].prog = p
    /\ ev[k].val = START_VALUE

\* C19: when the heater is turned on while the device reports the pump as
\* not running, the activation of the medium speed program is sent first,
\* then the status update is called, then the activation of the heater
\* program is sent; no heater activation is sent before the pump's
C19_PumpBeforeHeater ==
    [][ ( last'.op \in HeaterOps /\ ~hub.devices[1].pump_running )
        => \A k \in 1..Len(last'.ev) :
              ActivatePut(last'.ev, k, DefaultConfig.relay_heater)
                 => \E i, j \in 1..Len(last'.ev) :
                       /\ i < j /\ j < k
                       /\ ActivatePut(last'.ev, i, DefaultConfig.speed_medium)
                       /\ last'.ev[j].call = "update_status" ]_vars

\* the climate entity started the pump, refreshed and then armed the heater
C19_Witness ==
    /\ last.op = "climate_temperature"
    /\ \E i, j, k \in 1..Len(last.ev) :
          /\ i < j /\ j < k
          /\ ActivatePut(last.ev, i, DefaultConfig.speed_medium)
          /\ last.ev[i].ok
          /\ last.ev[j].call = "update_status"
          /\ ActivatePut(last.ev, k, DefaultConfig.relay_heater)
          /\ last.ev[k].ok
    /\ clim.heater_on

\* C20: the medium pump command is conditional: when the device reports the
\* pump as running at a heater turn-on, by the switch or by the climate
\* entity, only the heater activation is sent and no speed program is
\* activated
C20_PumpCommandConditional ==
    [][ ( /\ last'.op \in HeaterOps
          /\ hub.devices[1].pump_running
          /\ \E k \in 1..Len(last'.ev) :
                ActivatePut(last'.ev, k, DefaultConfig.relay_heater) )
        => \A k \in 1..Len(last'.ev) :
              ~ActivatePut(last'.ev, k, DefaultConfig.speed_medium) ]_vars

(***************************************************************************)
(* The heater flag of the pump fan and the speed increase it asks for      *)
(***************************************************************************)
\* the entities start on a device whose pump is off, or runs its low or its
\* medium speed program
FollowInit ==
    \E p \in {0, DefaultConfig.speed_low, DefaultConfig.speed_medium} :
    \E s \in {SetUpAt(0, [n \in Slots |-> IF n = p THEN 3 ELSE 0])} :
        /\ hub = s.hub
        /\ cloud = s.cloud
        /\ now = 0
        /\ fan = update_state_from_device(NewFan(DefaultConfig),
                                          s.hub.devices[1])
        /\ num = NewNum(DefaultConfig)
        /\ sw = NewSw(DefaultConfig)
        /\ clim = NewClim(DefaultConfig)
        /\ last = NoOp
        /\ ops = 0
        /\ workers = NoWorkers
    /\ workers = NoWorkers

FollowNext ==
    \/ FanTick
    \/ FanSetPercentage
    \/ FanWake
    \/ FanExecStop
    \/ FanExecStart
    \/ FanUpdateHeaterState
    \/ FanFollowup

\* created tasks run, sleeps end, and executor jobs return
FollowSpec ==
    /\ FollowInit /\ [][FollowNext]_vars
    /\ WF_vars(FanFollowup) /\ WF_vars(FanTick) /\ WF_vars(FanWake)
    /\ WF_vars(FanExecStop) /\ WF_vars(FanExecStart)

\* C21: update_heater_state(True) with the percentage strictly between 0 and
\* 50 creates a follow-up request for 50, and with a percentage of 0 or of 50
\* and more it creates none; once created, either a newer request is
\* scheduled or the start of the 50 % program is eventually executed
C21_FollowUp ==
    /\ [][ last'.op = "update_heater_state"
           => /\ ( last'.prog = 1 /\ 0 < fan.percentage /\ fan.percentage < 50 )
                    => fan'.followup
              /\ ( last'.prog = 0 \/ fan.percentage = 0 \/ fan.percentage >= 50 )
                    => fan'.followup = fan.followup ]_vars
    /\ [][ last'.op = "followup"
           => /\ fan'.task.state = "sleeping"
              /\ fan'.task.speed = 50
              /\ fan'.pending_speed_change = 50 ]_vars
    /\ fan.followup
          ~> \/ last.op = "set_percentage" /\ last.note = "scheduled"
             \/ /\ last.op = "exec_start"
                /\ last.prog = DefaultConfig.speed_medium
                /\ fan.task.speed = 50
                /\ PutSent(last.ev)

\* the follow-up request was executed: the pump ran at 30, the heater flag
\* was set, and the start of the medium speed program was sent
C21_Witness ==
    /\ last.op = "exec_start"
    /\ last.prog = DefaultConfig.speed_medium
    /\ fan.task.speed = 50 /\ fan.task.req = 50
    /\ fan.heater_on
    /\ fan.percentage = 30
    /\ ~fan.followup
    /\ PutOk(last.ev)

(***************************************************************************)
(* update_pentair_devices_status run by two executor threads, one          *)
(* statement at a time                                                     *)
(***************************************************************************)
\* lines 231-234: the guard is read
RaceEnter ==
    \E w \in DOMAIN workers :
    /\ workers[w] = "idle"
    /\ IF UpdateAllowed(hub.last_update, now)
       THEN /\ workers' = [workers EXCEPT ![w] = "stamp"]
            /\ last' = Note("enter", w, "due")
       ELSE /\ workers' = workers
            /\ last' = Note("enter", w, "too early")
    /\ UNCHANGED <<hub, cloud, now, fan, num, sw, clim, ops>>

\* lines 237-246: last_update is written, the token is checked (it is the
\* same), the request body is built
RaceStamp ==
    \E w \in DOMAIN workers :
    /\ workers[w] = "stamp"
    /\ hub' = [hub EXCEPT !.last_update = now]
    /\ workers' = [workers EXCEPT ![w] = "post"]
    /\ last' = Note("stamp", w, "")
    /\ UNCHANGED <<cloud, now, fan, num, sw, clim, ops>>

\* lines 248-253: the request is sent
RacePost ==
    \E w \in DOMAIN workers :
    /\ workers[w] = "post"
    /\ workers' = [workers EXCEPT ![w] = "in flight"]
    /\ last' = Note("post", w, "")
    /\ UNCHANGED <<hub, cloud, now, fan, num, sw, clim, ops>>

\* lines 254-285: the response arrives and is decoded
RaceReturn ==
    \E w \in DOMAIN workers :
    /\ workers[w] = "in flight"
    /\ \E st \in {Fetch(Here, AllOk)} :
          /\ Commit(st)
          /\ last' = Op("update_status", "", w, st)
    /\ workers' = [workers EXCEPT ![w] = "idle"]
    /\ UNCHANGED <<now, fan, num, sw, clim, ops>>

RaceNext ==
    \/ HubTick
    \/ CloudChange
    \/ RaceEnter
    \/ RaceStamp
    \/ RacePost
    \/ RaceReturn

RaceSpec == PollInit /\ [][RaceNext]_vars

\* C22: at most one remote status fetch is in progress at any time, however
\* the threads that call update_pentair_devices_status interleave
C22_OneFetchInFlight ==
    Cardinality({w \in DOMAIN workers : workers[w] = "in flight"}) <= 1

\* C23: a percentage request that arrives while an earlier speed change is
\* executing (its delay is over and it has sent a stop command) leaves that
\* change running, so that it goes on to its remaining commands
C23_ExecutionNotInterrupted ==
    [][ ( /\ fan.task.state = "running"
          /\ fan.task.pc = "stop" /\ fan.task.i > 1
          /\ last'.op \in {"set_percentage", "followup"} )
        => /\ fan'.task.state = "running"
           /\ fan'.task.speed = fan.task.speed
           /\ fan'.task.pc = fan.task.pc ]_vars

\* C25: every successful run of device discovery adds one Device for each
\* account device of type IF31 with status ACTIVE (here d1 alone) and is
\* followed, before the next discovery or the end of the operation, by a
\* remote status fetch
C25_DiscoveryThenFetch ==
    [][ LET ev == last'.ev
            found == {k \in Calls(ev, "list") : ev[k].ok}
        IN  found # {}
            => /\ Len(hub'.devices) = Len(hub.devices) + Cardinality(found)
               /\ \A k \in 1..Len(hub'.devices) :
                     hub'.devices[k].pentair_device_id = "d1"
               /\ \A k \in found :
                     \E j \in Calls(ev, "fetch") :
                        /\ k < j
                        /\ \A i \in found : ~(k < i /\ i < j) ]_vars

\* C26: the registry holds at most one Device for each device identity
C26_OneDevicePerIdentity ==
    \A i, j \in 1..Len(hub.devices) :
        hub.devices[i].pentair_device_id = hub.devices[j].pentair_device_id
            => i = j

\* C29: a status poll whose request, response or decoding fails leaves the
\* registry as it was before the poll
C29_FailedPollKeepsRegistry ==
    [][ ( /\ last'.op = "update_status"
          /\ \E k \in Calls(last'.ev, "fetch") : ~last'.ev[k].ok )
        => hub'.devices = hub.devices ]_vars

\* C27: once the heater switch or the climate entity has activated the
\* heater program, the pump fan's heater flag is set
C27_FanKnowsHeater ==
    [][ ( /\ last'.op \in HeaterOps
          /\ \E k \in 1..Len(last'.ev) :
                /\ ActivatePut(last'.ev, k, DefaultConfig.relay_heater)
                /\ last'.ev[k].ok )
        => fan'.heater_on ]_vars

\* C28: a heater turn-on that finds the pump not running sends the heater
\* activation only if the pump is reported running by then
C28_HeaterOnlyWithPump ==
    [][ ( /\ last'.op \in HeaterOps
          /\ ~hub.devices[1].pump_running
          /\ \E k \in 1..Len(last'.ev) :
                ActivatePut(last'.ev, k, DefaultConfig.relay_heater) )
        => hub'.devices[1].pump_running ]_vars

\* C30: the status update called during a heater turn-on performs a remote
\* fetch, whatever the time since the previous refresh
C30_ForcedRefreshFetches ==
    [][ last'.op \in HeaterOps
        => \A j \in Calls(last'.ev, "update_status") :
              /\ j < Len(last'.ev)
              /\ last'.ev[j + 1].call = "fetch" ]_vars

\* C31: after a credential exchange has failed, a due status poll that
\* meets a healthy provider attempts the exchange again and succeeds in it,
\* even though the session's token has not changed since the failure
C31_PollRetriesExchange ==
    [][ ( /\ last'.op = "update_status"
          /\ hub.cognito_client
          /\ hub.AWS_TOKEN # None
          /\ hub.creds # hub.AWS_TOKEN
          /\ UpdateAllowed(hub.last_update, now)
          /\ cloud'.session_token = cloud.session_token
          /\ \A k \in Calls(last'.ev, "exchange") : last'.ev[k].ok )
        => \E k \in Calls(last'.ev, "exchange") : last'.ev[k].ok ]_vars

\* C32: when a bearer token is stored and the session still shows that
\* token, the token check made by a command or by a due status update makes
\* no credential exchange and no discovery request and leaves the token, the
\* signing triple and (before the command's own effect) the device registry
\* as they were
C32_TokenCheckIdempotent ==
    [][ ( /\ IsCommand(last') \/ last'.op = "update_status"
          /\ hub.AWS_TOKEN # None
          /\ hub.AWS_TOKEN = cloud.session_token
          /\ cloud'.session_token = cloud.session_token )
        => /\ Calls(last'.ev, "exchange") = {}
           /\ Calls(last'.ev, "list") = {}
           /\ hub'.AWS_TOKEN = hub.AWS_TOKEN
           /\ hub'.creds = hub.creds
           /\ Len(hub'.devices) = Len(hub.devices)
           /\ IsCommand(last') => last'.mid = hub.devices ]_vars

\* a command was sent with the stored token and without any exchange
C32_Witness ==
    /\ last.op = "activate"
    /\ PutOk(last.ev)
    /\ Len(last.ev) = 1
    /\ hub.AWS_TOKEN # None
    /\ hub.AWS_TOKEN = cloud.session_token
    /\ last.mid # << >>

(***************************************************************************)
(* Status polls of a device whose programs are enabled and disabled in the *)
(* vendor app between polls                                                *)
(***************************************************************************)
\* the zp{n}e13 flag of a program changes: one program of the registry,
\* one outside it
SlotChange ==
    \E n \in {2, 7}, v \in {0, 1} :
        /\ cloud.e13[HubDevice][n] # v
        /\ cloud' = [cloud EXCEPT !.e13[HubDevice][n] = v]
        /\ last' = [NoOp EXCEPT !.op = "cloud"]
        /\ UNCHANGED <<hub, now>>
        /\ Idle

SlotNext ==
    \/ HubTick
    \/ CloudChange
    \/ SlotChange
    \/ HubUpdateStatus

SlotSpec == PollInit /\ [][SlotNext]_vars

\* the programs of identity n in a program list
ProgramOf(programs, n) == SelectSeq(programs, LAMBDA q : q.id = n)

\* C33: a poll that decodes the response upserts slot n of a device exactly
\* when the slot's active flag is set: a flagged slot is in the collection
\* afterwards with the reported name, type and control value, a slot that is
\* not flagged is neither inserted nor modified; every program identity of
\* every device lies in 1..8
C33_SlotDecoding ==
    [][ /\ ( /\ last'.op = "update_status"
             /\ \E k \in Calls(last'.ev, "fetch") : last'.ev[k].ok )
           => \A k \in 1..Len(hub'.devices), n \in Slots :
                 LET d == hub'.devices[k].pentair_device_id
                     before == IF k <= Len(hub.devices)
                               THEN ProgramOf(hub.devices[k].programs, n)
                               ELSE << >>
                     after == ProgramOf(hub'.devices[k].programs, n)
                 IN  IF cloud.e13[d][n] = 1
                     THEN after = << PentairPumpProgram(n, SlotName(n), MANUAL,
                                                        cloud.e10[d][n]) >>
                     ELSE after = before
        /\ \A k \in 1..Len(hub'.devices) :
              \A j \in 1..Len(hub'.devices[k].programs) :
                 hub'.devices[k].programs[j].id \in Slots ]_vars

\* a poll found program 2 disabled and armed, and kept the stopped program
\* it had stored; it found program 7 enabled and stored it
C33_Witness ==
    /\ last.op = "update_status"
    /\ \E k \in Calls(last.ev, "fetch") : last.ev[k].ok
    /\ cloud.e13[HubDevice][2] = 0
    /\ cloud.e10[HubDevice][2] = START_VALUE
    /\ Len(ProgramOf(hub.devices[1].programs, 2)) = 1
    /\ ~ProgramOf(hub.devices[1].programs, 2)[1].running
    /\ Len(ProgramOf(hub.devices[1].programs, 7)) = 1
    /\ ProgramOf(hub.devices[1].programs, 8) = << >>

\* C34: with the heater off, a pump turn-off whose stop commands were all
\* accepted by the remote ends with percentage 0, is_on false and preset
\* "off"; one with a stop command that failed leaves the three as they were
C34_TurnOffOnSuccess ==
    [][ ( last'.op = "off_finish" /\ ~fan.heater_on )
        => IF fan.seen.off_ok
           THEN /\ fan'.percentage = 0
                /\ ~fan'.is_on
                /\ fan'.preset_mode = "off"
           ELSE /\ fan'.percentage = fan.percentage
                /\ fan'.is_on = fan.is_on
                /\ fan'.preset_mode = fan.preset_mode ]_vars

(***************************************************************************)
(* The pump fan under other role configurations, on a device where every   *)
(* program may be running                                                  *)
(***************************************************************************)
\* config_entry.data as ConfigFlow.async_step_programs stores it: each role
\* is chosen on its own among the manual programs, so two roles may name
\* the same program.  The defaults, another assignment of programs 1..4,
\* and one where low and medium share a program
Configs ==
    { DefaultConfig,
      [DefaultConfig EXCEPT !.speed_low = 4, !.speed_medium = 1,
                            !.speed_high = 2, !.speed_max = 3],
      [DefaultConfig EXCEPT !.speed_medium = 3] }

\* the device when the entities start: programs 2 and 4 and the lights and
\* heater programs running, or the lights program alone
ConfigE10 ==
    { [n \in Slots |-> IF n \in {2, 4, 5, 6} THEN 3 ELSE 0],
      [n \in Slots |-> IF n = 5 THEN 3 ELSE 0] }

ConfigInit ==
    \E cfg \in Configs, e10 \in ConfigE10 :
    \E s \in {SetUpAt(0 - (UPDATE_MIN_SECONDS + 1), e10)} :
        /\ hub = s.hub
        /\ cloud = s.cloud
        /\ now = 0
        /\ fan = update_state_from_device(NewFan(cfg), s.hub.devices[1])
        /\ num = NewNum(cfg)
        /\ sw = NewSw(cfg)
        /\ clim = NewClim(cfg)
        /\ last = NoOp
        /\ ops = 0
        /\ workers = NoWorkers

ConfigNext ==
    \/ FanTick
    \/ FanSetPercentage
    \/ FanWake
    \/ FanExecStop
    \/ FanExecStart
    \/ FanExecRefresh
    \/ FanExecReread
    \/ FanTurnOff
    \/ FanOffStop
    \/ FanOffFinish

ConfigSpec == ConfigInit /\ [][ConfigNext]_vars

\* the identities of the running programs of the first device that are not
\* pump-speed programs of the fan's configuration
OtherRunning(h, m) ==
    {h.devices[1].programs[j].id :
        j \in {i \in 1..Len(h.devices[1].programs) :
                  /\ h.devices[1].programs[i].running
                  /\ h.devices[1].programs[i].id \notin PumpPrograms(m)}}

\* C35: no step of a fan speed change or of a pump turn-off sends a command
\* for a program outside the configured pump-speed programs, and the
\* programs outside them keep their running state in the registry and on
\* the device
C35_OnlyPumpPrograms ==
    [][ /\ \A k \in Calls(last'.ev, "put") :
              last'.ev[k].prog \in PumpPrograms(fan.program_mappings)
        /\ OtherRunning(hub', fan.program_mappings)
              = OtherRunning(hub, fan.program_mappings)
        /\ \A n \in Slots \ PumpPrograms(fan.program_mappings) :
              cloud'.e10[EntityDeviceId][n] = cloud.e10[EntityDeviceId][n]
      ]_vars

\* the last running pump program was stopped while the lights and heater
\* programs are running; they still are
C35_Witness ==
    /\ last.op \in {"exec_stop", "off_stop"}
    /\ PutOk(last.ev)
    /\ RunningPump(fan.program_mappings, EntityDevice.programs, 1) = {}
    /\ {5, 6} \subseteq OtherRunning(hub, fan.program_mappings)

\* the identities of the running pump-speed programs of the first device
RunningPumpIds(h, m) ==
    {h.devices[1].programs[j].id :
        j \in RunningPump(m, h.devices[1].programs, 1)}

\* C40: when a speed change has had every stop command and its start
\* command accepted by the remote, the registry shows exactly one pump-speed
\* program running, the program of the target bucket; after a change to 0
\* whose stop commands were all accepted it shows none running
C40_OnePumpProgram ==
    [][ /\ ( /\ last'.op = "exec_start"
             /\ fan.seen.exec_ok
             /\ PutOk(last'.ev) )
           => RunningPumpIds(hub', fan.program_mappings) = {fan.task.target}
        /\ ( last'.op = "exec_off" /\ fan.seen.exec_ok )
           => RunningPumpIds(hub', fan.program_mappings) = {} ]_vars

\* a change to 75 stopped two running pump programs and started the high
\* program, which is the only pump program running
C40_Witness ==
    /\ last.op = "exec_start"
    /\ PutOk(last.ev)
    /\ last.prog = fan.program_mappings.high
    /\ fan.program_mappings.high = 2
    /\ RunningPumpIds(hub, fan.program_mappings) = {2}
    /\ cloud.e10[EntityDeviceId][4] = STOP_VALUE
    /\ cloud.e10[EntityDeviceId][5] = START_VALUE

\* the speed of a speed role
RoleSpeed(r) ==
    IF r = "low" THEN 30 ELSE IF r = "medium" THEN 50
    ELSE IF r = "high" THEN 75 ELSE 100

\* C36: for every role configuration and every speed role r, when the
\* registry shows r's program as the one running pump-speed program, the
\* fan's re-read of the device decodes it as r: r's speed and r's preset
C36_RoleRoundTrip ==
    [][ last'.op = "exec_reread"
        => \A r \in DOMAIN fan.program_mappings :
              RunningPumpIds(hub, fan.program_mappings)
                  = {fan.program_mappings[r]}
              => /\ fan'.percentage = RoleSpeed(r)
                 /\ fan'.preset_mode = r ]_vars

(***************************************************************************)
(* The heater switch and the climate entity on a remote that may reject    *)
(* commands                                                                *)
(***************************************************************************)
HeatNext ==
    \/ SysSwitchTurnOn
    \/ SysSwitchTurnOff
    \/ SysSwitchUpdate
    \/ SysClimateSetMode
    \/ SysClimateTemperature

HeatSpec == FanInit /\ [][HeatNext]_vars

\* the commands of an operation for program p with control value v
Puts(ev, p, v) ==
    {k \in Calls(ev, "put") : ev[k].prog = p /\ ev[k].val = v}

\* C37: when a heater turn-on has had its pump command accepted and its
\* heater command rejected, the operation sends no deactivate command, the
\* pump program stays running on the device and in the registry, and the
\* heater command was sent exactly once
C37_NoRollbackNoRetry ==
    [][ ( /\ last'.op \in HeaterOps
          /\ \E k \in Puts(last'.ev, sw.speed_medium, START_VALUE) :
                last'.ev[k].ok
          /\ \E k \in Puts(last'.ev, sw.relay_program, START_VALUE) :
                ~last'.ev[k].ok )
        => /\ \A k \in Calls(last'.ev, "put") : last'.ev[k].val # STOP_VALUE
           /\ Cardinality(Puts(last'.ev, sw.relay_program, START_VALUE)) = 1
           /\ cloud'.e10[EntityDeviceId][sw.speed_medium] = START_VALUE
           /\ \E j \in 1..Len(hub'.devices[1].programs) :
                 /\ hub'.devices[1].programs[j].id = sw.speed_medium
                 /\ hub'.devices[1].programs[j].running ]_vars

\* the switch started the pump, which was off, and the heater command that
\* followed was rejected
C37_Witness ==
    /\ last.op = "switch_turn_on"
    /\ Cardinality(Puts(last.ev, sw.speed_medium, START_VALUE)
              \cup Puts(last.ev, sw.relay_program, START_VALUE)) = 2
    /\ \E k \in Puts(last.ev, sw.speed_medium, START_VALUE) : last.ev[k].ok
    /\ \E k \in Puts(last.ev, sw.relay_program, START_VALUE) : ~last.ev[k].ok
    /\ cloud.e10[EntityDeviceId][sw.speed_medium] = START_VALUE
    /\ cloud.e10[EntityDeviceId][sw.relay_program] = STOP_VALUE

\* C38: after a heater turn-on or turn-off whose command for the heater
\* program was not accepted, the switch's on/off state and the climate
\* entity's heater-on flag are what they were before the operation
C38_StateFollowsCommand ==
    [][ ( /\ last'.op \in HeaterOps \cup {"switch_turn_off"}
          /\ \E k \in Calls(last'.ev, "put") :
                /\ last'.ev[k].prog = sw.relay_program
                /\ ~last'.ev[k].ok )
        => /\ sw'.is_on = sw.is_on
           /\ clim'.heater_on = clim.heater_on ]_vars

\* C39: a set-percentage request that is dropped, because its
\* safety-adjusted percentage is the current one, leaves no delayed speed
\* change pending: the request made before it will not be executed
C39_DroppedSupersedes ==
    [][ ( last'.op = "set_percentage" /\ last'.note = "dropped" )
        => fan'.task.state # "sleeping" ]_vars

====
